---- MODULE Spec2Model ----
(***************************************************************************)
(* A model of the argument resolver of Contract (packages/program) and of  *)
(* Predicate (packages/predicate): construction with configurable          *)
(* constants patched into the bytecode, setData, and the population of a   *)
(* transaction request's predicate-gated inputs.                           *)
(*                                                                         *)
(* Three specifications share the variables:                               *)
(*   SpecResolver      Contract.buildFunction / _mapObjIntoArgsArray       *)
(*   SpecConfigurator  Predicate.setConfigurableConstants                  *)
(*   Spec              the life of one Predicate object                    *)
(***************************************************************************)
EXTENDS Integers, Sequences, FiniteSets, TLC

VARIABLES
    \* Contract
    abi,                    \* this.interface.abi.functions: name -> input names
    call,                   \* the fragment and the args of the observed call
    scope,                  \* the FunctionInvocationScope the call built
    \* Predicate.setConfigurableConstants
    bytes,                  \* the working buffer (bytes aliases mutatedBytes)
    bytesBefore,            \* its contents when the call started
    abiInterface,           \* the abiInterface argument
    configurableConstants,  \* the configurableConstants argument, as entries
    outcome,                \* how the call ended: returned or thrown (and why)
    \* a Predicate object
    pred,                   \* the object's fields, NoPredicate before `new`
    ctorArgs,               \* the arguments `new Predicate` was called with
    ctorOutcome,            \* how the constructor ended
    setDataLog,             \* the most recent setData call and how it ended
    lastGoodData,           \* what the most recent successful setData encoded
    lastRequest             \* the most recent populate/send/simulate call

resolverVars == <<abi, call, scope>>
configuratorVars == <<bytes, bytesBefore, abiInterface, configurableConstants, outcome>>
predicateVars == <<pred, ctorArgs, ctorOutcome, setDataLog, lastGoodData, lastRequest>>
vars == <<resolverVars, configuratorVars, predicateVars>>

(***************************************************************************)
(* Bounds of the model.                                                    *)
(***************************************************************************)
MaxParams == 2      \* parameters of a function fragment
MaxEntries == 2     \* entries of a configurableConstants object
MaxInputs == 2      \* inputs of a transaction request
BytesLen == 4       \* length of a predicate's bytecode

Range(s) == {s[i] : i \in 1..Len(s)}
SeqsUpTo(S, n) == UNION {[1..k -> S] : k \in 0..n}
Injective(s) == \A i, j \in 1..Len(s) : s[i] = s[j] => i = j
EntryOrders(s) ==
    {[i \in 1..Len(s) |-> s[p[i]]] :
        p \in {q \in [1..Len(s) -> 1..Len(s)] : Injective(q)}}

(***************************************************************************)
(* JavaScript objects.  An object is the sequence of its [key, value]      *)
(* entries in Object.entries order, which for non-numeric keys is the      *)
(* order of insertion; keys are distinct.                                  *)
(***************************************************************************)
Keys(entries) == {entries[i][1] : i \in 1..Len(entries)}
DistinctKeys(entries) == \A i, j \in 1..Len(entries) : entries[i][1] = entries[j][1] => i = j
ValueOf(entries, k) == entries[CHOOSE i \in 1..Len(entries) : entries[i][1] = k][2]

(***************************************************************************)
(*                       Contract (contract.ts)                            *)
(***************************************************************************)
ParamNames == {"to", "amount", "memo"}
FunctionNames == {"transfer", "mint"}
ArgValues == {500, 501}
\* the i-th property a caller writes in an object holds the value 500 + i
PropertyValue(i) == 500 + i
\* the ordered inputs a function of the ABI may declare
ParamLists == {s \in SeqsUpTo(ParamNames, MaxParams) : Injective(s)}

ArrayArgs(items) == [tag |-> "array", items |-> items]
ObjectArgs(entries) == [tag |-> "object", entries |-> entries]
UndefinedArgs == [tag |-> "undefined"]

\* what a caller may pass to a function of contract.functions
ArgKeys == ParamNames \cup {"bogus"}
ArgObjects ==
    {[i \in 1..Len(k) |-> <<k[i], PropertyValue(i)>>] :
        k \in {s \in SeqsUpTo(ArgKeys, MaxParams + 1) : Injective(s)}}
CallArgs ==
    {ArrayArgs(a) : a \in SeqsUpTo(ArgValues, MaxParams + 1)}
        \cup {ObjectArgs(e) : e \in ArgObjects}
        \cup {UndefinedArgs}

\* Array.prototype.indexOf, zero-based, -1 when absent
IndexOf(names, k) ==
    IF \E i \in 1..Len(names) : names[i] = k
    THEN (CHOOSE i \in 1..Len(names) :
            names[i] = k /\ \A j \in 1..(i - 1) : names[j] # k) - 1
    ELSE -1

CompareReversed(a, b, orderedArgNames) ==
    IndexOf(orderedArgNames, b[1]) - IndexOf(orderedArgNames, a[1])
\* the comparator of line 89
Compare(a, b, orderedArgNames) ==
    IndexOf(orderedArgNames, a[1]) - IndexOf(orderedArgNames, b[1])

\* Array.prototype.sort is stable: an entry goes after every entry that
\* does not compare greater than it.
RECURSIVE SortEntries(_, _)
SortEntries(entries, orderedArgNames) ==
    IF entries = <<>> THEN <<>>
    ELSE LET n == Len(entries)
             e == entries[n]
             sorted == SortEntries(SubSeq(entries, 1, n - 1), orderedArgNames)
             k == Cardinality({i \in 1..Len(sorted) :
                                 Compare(sorted[i], e, orderedArgNames) <= 0})
         IN  SubSeq(sorted, 1, k) \o <<e>> \o SubSeq(sorted, k + 1, Len(sorted))

\* func is a fragment of the contract's own interface, so the find of line 84
\* finds its ABI function (the non-null assertions of line 89)
MapObjIntoArgsArray(functions, func, obj) ==
    IF obj.tag = "undefined" THEN <<>>
    ELSE LET orderedArgNames == functions[func.name]
             sorted == SortEntries(obj.entries, orderedArgNames)
         IN  [i \in 1..Len(sorted) |-> sorted[i][2]]

NoScope == [status |-> "none"]
FunctionInvocationScope(func, args) == [status |-> "built", func |-> func, args |-> args]

\* the closure buildFunction(func) returns, applied to args
BuildFunction(functions, func, args) ==
    IF args.tag = "array"
    THEN FunctionInvocationScope(func, args.items)
    ELSE FunctionInvocationScope(func, MapObjIntoArgsArray(functions, func, args))

NoCall == [made |-> FALSE]

\* contract.functions[name](args): the fragment is the interface's own
Invoke(name, args) ==
    /\ ~call.made
    /\ LET func == [name |-> name, inputs |-> abi[name]]
       IN  /\ call' = [made |-> TRUE, func |-> func, args |-> args]
           /\ scope' = BuildFunction(abi, func, args)
    /\ UNCHANGED <<abi, configuratorVars, predicateVars>>

(***************************************************************************)
(*          The codec (@fuel-ts/abi-coder), at its boundary                *)
(***************************************************************************)
FragmentTypes == {"u8", "u16"}
CodecError == [ok |-> FALSE, bytes |-> <<>>]
Encoded(b) == [ok |-> TRUE, bytes |-> b]

\* getCoder(fragmentType).encode(value): big-endian, of the type's width; a
\* value the type cannot hold is an encoding error
CoderEncode(fragmentType, value) ==
    IF fragmentType = "u8"
    THEN IF value \in 0..255 THEN Encoded(<<value>>) ELSE CodecError
    ELSE IF value \in 0..65535
         THEN Encoded(<<value \div 256, value % 256>>)
         ELSE CodecError

(***************************************************************************)
(*        Predicate.setConfigurableConstants (predicate.ts)                *)
(***************************************************************************)
ConfigurableNames == {"x", "y"}
ConstantNames == ConfigurableNames \cup {"z"}     \* "z" is never declared
ConstantValues == {7, 258}
PredicateBytes == [i \in 1..BytesLen |-> 100 + i]

Slots == [fragmentType : FragmentTypes, offset : 0..BytesLen]
NoInterface == [present |-> FALSE]
Interface(configurables) == [present |-> TRUE, configurables |-> configurables]
\* abiInterface.configurables: name -> {fragmentType, offset}
Configurables == UNION {[names -> Slots] : names \in SUBSET ConfigurableNames}
Interfaces == {NoInterface} \cup {Interface(c) : c \in Configurables}

\* a non-empty configurableConstants object (line 223)
ConstantObjects ==
    {e \in SeqsUpTo(ConstantNames \X ConstantValues, MaxEntries) :
        e # <<>> /\ DistinctKeys(e)}

RangeError == [ok |-> FALSE, array |-> <<>>]

Uint8ArraySetUnchecked(target, source, offset) ==
    [ok |-> TRUE,
     array |-> [i \in 1..(IF offset + Len(source) > Len(target)
                          THEN offset + Len(source) ELSE Len(target)) |->
                  IF i > offset /\ i <= offset + Len(source)
                  THEN source[i - offset]
                  ELSE target[i]]]
Uint8ArraySetWord(target, source, offset) ==
    IF offset + Len(source) > Len(target) THEN RangeError
    ELSE [ok |-> TRUE,
          array |-> [i \in 1..Len(target) |->
                       IF i > offset /\ i <= offset + Len(source)
                       THEN source[i - offset]
                       ELSE IF i > offset /\ i <= offset + 2 THEN 0
                       ELSE target[i]]]
\* mutatedBytes.set(encoded, offset): TypedArray.prototype.set throws a
\* RangeError, writing nothing, when offset + source.length exceeds the
\* target's length; a typed array never grows
Uint8ArraySet(target, source, offset) ==
    IF offset + Len(source) > Len(target) THEN RangeError
    ELSE [ok |-> TRUE,
          array |-> [i \in 1..Len(target) |->
                       IF i > offset /\ i <= offset + Len(source)
                       THEN source[i - offset]
                       ELSE target[i]]]

Thrown(err, buf) == [status |-> "thrown", err |-> err, buf |-> buf]
Returned(buf) == [status |-> "returned", err |-> "", buf |-> buf]

\* the forEach of lines 256-266 on the entries left, buf being mutatedBytes
RECURSIVE ForEachEntry(_, _, _)
ForEachEntry(buf, entries, configurables) ==
    IF entries = <<>> THEN Returned(buf)
    ELSE LET key == entries[1][1]
             value == entries[1][2]
         IN  IF key \notin DOMAIN configurables
             THEN Thrown("no configurable constant named", buf)
             ELSE LET fragmentType == configurables[key].fragmentType
                      offset == configurables[key].offset
                      encoded == CoderEncode(fragmentType, value)
                      written == Uint8ArraySet(buf, encoded.bytes, offset)
                  IN  IF ~encoded.ok THEN Thrown("encode", buf)
                      ELSE IF ~written.ok THEN Thrown("RangeError", buf)
                      ELSE ForEachEntry(written.array, Tail(entries), configurables)

\* the result carries the state of the buffer passed in, which the method
\* mutates in place, and which it returns when it returns
SetConfigurableConstants(buf, constants, interface) ==
    IF ~interface.present THEN Thrown("without json ABI", buf)
    ELSE IF DOMAIN interface.configurables = {}
         THEN Thrown("no configurable constants to be set", buf)
         ELSE ForEachEntry(buf, constants, interface.configurables)

Idle == [status |-> "idle", err |-> ""]

\* one call of the method on a fresh buffer
ApplyConfigurables(constants) ==
    /\ outcome.status = "idle"
    /\ LET r == SetConfigurableConstants(bytes, constants, abiInterface)
       IN  /\ bytes' = r.buf
           /\ outcome' = [status |-> r.status, err |-> r.err]
    /\ bytesBefore' = bytes
    /\ configurableConstants' = constants
    /\ UNCHANGED <<abiInterface, resolverVars, predicateVars>>

(***************************************************************************)
(*                     Predicate (predicate.ts)                            *)
(***************************************************************************)
ChainIds == {0, 1}

\* a JavaScript value passed to setData: a number, or an object of numbers
Num(n) == [tag |-> "number", n |-> n]
Obj(entries) == [tag |-> "object", entries |-> entries]

Fragment(name, inputs) == [name |-> name, inputs |-> inputs]
Input(name, type) == [name |-> name, type |-> type]
NoJsonAbi == [present |-> FALSE]
JsonAbi(functions, configurables) ==
    [present |-> TRUE, functions |-> functions, configurables |-> configurables]
Slot(fragmentType, offset) == [fragmentType |-> fragmentType, offset |-> offset]

\* the ABIs a predicate is constructed with: none, one without main, one whose
\* configurables lie apart, one with a slot reaching past the bytecode's end
JsonAbis ==
    {NoJsonAbi,
     JsonAbi(<<Fragment("helper", <<>>)>>, <<>>),
     JsonAbi(<<Fragment("main", <<Input("a", "u8")>>)>>,
             [n \in ConfigurableNames |->
                 IF n = "x" THEN Slot("u8", 1) ELSE Slot("u16", 2)]),
     JsonAbi(<<Fragment("helper", <<>>),
               Fragment("main", <<Input("a", "u8"), Input("b", "u16")>>)>>,
             [n \in ConfigurableNames |->
                 IF n = "x" THEN Slot("u8", 0) ELSE Slot("u16", BytesLen - 1)])}

UndefinedConstants == [defined |-> FALSE]
Constants(entries) == [defined |-> TRUE, entries |-> entries]
ConstructorConstants ==
    {UndefinedConstants,
     Constants(<<>>),
     Constants(<<<<"x", 7>>>>),
     Constants(<<<<"y", 258>>, <<"x", 7>>>>),
     Constants(<<<<"x", 7>>, <<"z", 7>>>>)}

\* getContractRoot (./utils): a function of the bytecode and the chain id
\* that tells any two such pairs apart
GetContractRoot(predicateBytes, chainId) == <<predicateBytes, chainId>>

\* arrayify(bytes): a fresh Uint8Array of the same contents
Arrayify(b) == [i \in 1..Len(b) |-> b[i]]

\* new Interface(jsonAbi)
NewInterface(jsonAbi) ==
    [present |-> TRUE, fragments |-> jsonAbi.functions,
     configurables |-> jsonAbi.configurables]

UndefinedTypes == [defined |-> FALSE]

ProcessPredicateData(b, jsonAbi, constants) ==
    LET predicateBytes == Arrayify(b)
        predicateInterface ==
            IF jsonAbi.present THEN NewInterface(jsonAbi) ELSE NoInterface
        hasMain ==
            /\ jsonAbi.present
            /\ \E i \in 1..Len(jsonAbi.functions) : jsonAbi.functions[i].name = "main"
        mainFunction ==
            jsonAbi.functions[CHOOSE i \in 1..Len(jsonAbi.functions) :
                /\ jsonAbi.functions[i].name = "main"
                /\ \A j \in 1..(i - 1) : jsonAbi.functions[j].name # "main"]
        predicateTypes ==
            IF hasMain THEN [defined |-> TRUE, inputs |-> mainFunction.inputs]
            ELSE UndefinedTypes
        patched ==
            SetConfigurableConstants(predicateBytes, constants.entries, predicateInterface)
    IN  IF jsonAbi.present /\ ~hasMain
        THEN [thrown |-> TRUE, err |-> "Cannot use ABI without main function"]
        ELSE IF constants.defined /\ Len(constants.entries) > 0
        THEN IF patched.status = "thrown"
             THEN [thrown |-> TRUE, err |-> patched.err]
             ELSE [thrown |-> FALSE, predicateBytes |-> patched.buf,
                   predicateTypes |-> predicateTypes,
                   predicateInterface |-> predicateInterface]
        ELSE [thrown |-> FALSE, predicateBytes |-> predicateBytes,
              predicateTypes |-> predicateTypes,
              predicateInterface |-> predicateInterface]

ConstructorAddressOfRaw(b, predicateBytes, chainId) == GetContractRoot(b, chainId)
\* line 138
ConstructorAddress(b, predicateBytes, chainId) == GetContractRoot(predicateBytes, chainId)

\* the initializer of the field setData (lines 176-198) picks the closure by
\* the value this.isBuiltByFuelFactory has when the initializer runs
SetDataInitializer(this) ==
    IF this.isBuiltByFuelFactory THEN "named" ELSE "positional"

\* the field initializers run in the order of their declaration, when super()
\* has returned and before the rest of the constructor's body
FieldInitializers(address) ==
    LET this == [address |-> address, predicateData |-> <<>>,
                 isBuiltByFuelFactory |-> FALSE]
    IN  [address |-> this.address, predicateData |-> this.predicateData,
         isBuiltByFuelFactory |-> this.isBuiltByFuelFactory,
         setData |-> SetDataInitializer(this)]

NoPredicate == [constructed |-> FALSE]

Constructor(b, chainId, jsonAbi, constants, isBuiltByFuelFactory) ==
    LET p == ProcessPredicateData(b, jsonAbi, constants)
        address == ConstructorAddress(b, p.predicateBytes, chainId)
        this == FieldInitializers(address)
    IN  IF p.thrown THEN [thrown |-> TRUE, err |-> p.err, this |-> NoPredicate]
        ELSE [thrown |-> FALSE, err |-> "",
              this |-> [constructed |-> TRUE,
                        address |-> this.address,
                        predicateData |-> this.predicateData,
                        setData |-> this.setData,
                        isBuiltByFuelFactory |-> isBuiltByFuelFactory,
                        bytes |-> p.predicateBytes,
                        jsonAbi |-> IF p.predicateTypes.defined
                                    THEN p.predicateTypes.inputs ELSE <<>>,
                        interface |-> p.predicateInterface]]

Construct(b, chainId, jsonAbi, constants, isBuiltByFuelFactory) ==
    /\ ctorOutcome.status = "idle"
    /\ LET c == Constructor(b, chainId, jsonAbi, constants, isBuiltByFuelFactory)
       IN  /\ pred' = c.this
           /\ ctorOutcome' = [status |-> IF c.thrown THEN "thrown" ELSE "returned",
                              err |-> c.err]
    /\ ctorArgs' = [bytes |-> b, chainId |-> chainId, jsonAbi |-> jsonAbi,
                    configurableConstants |-> constants,
                    isBuiltByFuelFactory |-> isBuiltByFuelFactory]
    /\ UNCHANGED <<setDataLog, lastGoodData, lastRequest, resolverVars, configuratorVars>>

\* what callers pass to setData: positional values, or one object of named values
SetDataArgs ==
    {<<>>, <<Num(7)>>, <<Num(7), Num(258)>>,
     <<Obj(<<<<"a", 7>>>>)>>,
     <<Obj(<<<<"b", 258>>, <<"a", 7>>>>)>>}

RECURSIVE Concat(_)
Concat(chunks) == IF chunks = <<>> THEN <<>> ELSE Head(chunks) \o Concat(Tail(chunks))

\* AbiCoder.encode(types, values): as many values as types, each encoded by
\* its type's coder, the encodings concatenated
AbiCoderEncode(types, values) ==
    IF Len(types) # Len(values) THEN CodecError
    ELSE IF \E i \in 1..Len(values) :
                \/ values[i].tag # "number"
                \/ ~CoderEncode(types[i].type, values[i].n).ok
         THEN CodecError
         ELSE Encoded(Concat([i \in 1..Len(values) |->
                                 CoderEncode(types[i].type, values[i].n).bytes]))

\* mapArgsIntoArray(names, obj) of @fuel-ts/abi-coder: the values of obj in
\* the order of names
MapArgsIntoArray(names, obj) ==
    IF obj.tag # "object" THEN <<>>
    ELSE LET sorted == SortEntries(obj.entries, names)
         IN  [i \in 1..Len(sorted) |-> Num(sorted[i][2])]

\* the closure of lines 179-191
SetDataNamed(this, args) ==
    AbiCoderEncode(this.jsonAbi,
                   MapArgsIntoArray([i \in 1..Len(this.jsonAbi) |-> this.jsonAbi[i].name],
                                    IF args = <<>> THEN [tag |-> "undefined"] ELSE args[1]))
\* the closure of lines 192-198
SetDataPositional(this, args) == AbiCoderEncode(this.jsonAbi, args)

NoSetData == [status |-> "none"]

SetData(args) ==
    /\ pred.constructed
    /\ LET encoded == IF pred.setData = "named"
                      THEN SetDataNamed(pred, args)
                      ELSE SetDataPositional(pred, args)
       IN  IF encoded.ok
           THEN /\ pred' = [pred EXCEPT !.predicateData = encoded.bytes]
                /\ lastGoodData' = encoded.bytes
                /\ setDataLog' = [status |-> "returned", args |-> args]
           ELSE /\ setDataLog' = [status |-> "thrown", args |-> args]
                /\ UNCHANGED <<pred, lastGoodData>>
    /\ UNCHANGED <<ctorArgs, ctorOutcome, lastRequest, resolverVars, configuratorVars>>

\* an owner as the request carries it: a hex string, in either case
Owner(address, upper) == [hex |-> address, upper |-> upper]
\* hexlify of a hex string lower-cases it
Hexlify(owner) == [hex |-> owner.hex, upper |-> FALSE]
\* Address.toB256(): the lower-case hex string
ToB256(address) == [hex |-> address, upper |-> FALSE]

OtherAddress == GetContractRoot(<<>>, 0)
OtherBytes == <<9>>
TxInput(type, owner) ==
    [type |-> type, owner |-> owner, predicate |-> OtherBytes, predicateData |-> OtherBytes]
\* the inputs of the requests handed to a predicate whose address is `address`
InputPool(address) ==
    {TxInput("Coin", Owner(address, TRUE)),
     TxInput("Coin", Owner(address, FALSE)),
     TxInput("Coin", Owner(OtherAddress, FALSE)),
     TxInput("Message", Owner(address, FALSE))}

PopulateEveryCoin(this, inputs) ==
    [i \in 1..Len(inputs) |->
        IF inputs[i].type = "Coin"
        THEN [inputs[i] EXCEPT !.predicate = this.bytes,
                               !.predicateData = this.predicateData]
        ELSE inputs[i]]
\* populateTransactionPredicateData on the request's inputs (none when the
\* request has no inputs)
PopulateTransactionPredicateData(this, inputs) ==
    [i \in 1..Len(inputs) |->
        IF inputs[i].type = "Coin" /\ Hexlify(inputs[i].owner) = ToB256(this.address)
        THEN [inputs[i] EXCEPT !.predicate = this.bytes,
                               !.predicateData = this.predicateData]
        ELSE inputs[i]]

NoRequest == [made |-> FALSE]
\* the inputs of the requests a predicate is handed
RequestInputs(this) ==
    IF this.constructed
    THEN {r \in SeqsUpTo(InputPool(this.address), MaxInputs) : Injective(r)}
    ELSE {}
\* lastRequest keeps the inputs handed in, the request handed back to the
\* caller or on to Account's sendTransaction or simulateTransaction, and the
\* data the most recent successful setData had encoded by then
Requested(inputs) ==
    /\ pred.constructed
    /\ lastRequest' = [made |-> TRUE, inputs |-> inputs,
                       request |-> PopulateTransactionPredicateData(pred, inputs),
                       data |-> lastGoodData]
    /\ UNCHANGED <<pred, ctorArgs, ctorOutcome, setDataLog, lastGoodData,
                   resolverVars, configuratorVars>>

Populate(inputs) == Requested(inputs)
\* sendTransaction and simulateTransaction hand the populated request to Account
SendTransaction(inputs) == Requested(inputs)
SimulateTransaction(inputs) == Requested(inputs)

(***************************************************************************)
(*                        The specifications                               *)
(***************************************************************************)
ResolverIdle ==
    /\ abi = [n \in FunctionNames |-> <<>>]
    /\ call = NoCall
    /\ scope = NoScope
ConfiguratorIdle ==
    /\ bytes = PredicateBytes
    /\ bytesBefore = PredicateBytes
    /\ abiInterface = NoInterface
    /\ configurableConstants = <<>>
    /\ outcome = Idle
PredicateIdle ==
    /\ pred = NoPredicate
    /\ ctorArgs = [called |-> FALSE]
    /\ ctorOutcome = Idle
    /\ setDataLog = NoSetData
    /\ lastGoodData = <<>>
    /\ lastRequest = NoRequest

\* a Contract constructed over an ABI
InitResolver ==
    /\ abi \in [FunctionNames -> ParamLists]
    /\ call = NoCall
    /\ scope = NoScope
    /\ ConfiguratorIdle
    /\ PredicateIdle
NextResolver == \E name \in FunctionNames, args \in CallArgs : Invoke(name, args)
SpecResolver == InitResolver /\ [][NextResolver]_vars

\* a bytecode buffer and an interface, before setConfigurableConstants
InitConfigurator ==
    /\ bytes = PredicateBytes
    /\ bytesBefore = PredicateBytes
    /\ abiInterface \in Interfaces
    /\ configurableConstants = <<>>
    /\ outcome = Idle
    /\ ResolverIdle
    /\ PredicateIdle
NextConfigurator == \E constants \in ConstantObjects : ApplyConfigurables(constants)
SpecConfigurator == InitConfigurator /\ [][NextConfigurator]_vars

\* before `new Predicate`
Init ==
    /\ PredicateIdle
    /\ ResolverIdle
    /\ ConfiguratorIdle
Next ==
    \/ \E chainId \in ChainIds, jsonAbi \in JsonAbis,
          constants \in ConstructorConstants, isBuiltByFuelFactory \in BOOLEAN :
            Construct(PredicateBytes, chainId, jsonAbi, constants, isBuiltByFuelFactory)
    \/ \E args \in SetDataArgs : SetData(args)
    \/ \E inputs \in RequestInputs(pred) : Populate(inputs)
    \/ \E inputs \in RequestInputs(pred) : SendTransaction(inputs)
    \/ \E inputs \in RequestInputs(pred) : SimulateTransaction(inputs)
Spec == Init /\ [][Next]_vars

(***************************************************************************)
(*                 Properties of the argument resolver                     *)
(***************************************************************************)
NamedCall == call.made /\ call.args.tag # "array"
\* the keys of the named-argument mapping; an undefined mapping has none
NamedKeys == IF call.args.tag = "object" THEN Keys(call.args.entries) ELSE {}
Declared == call.func.inputs
CoversDeclared == call.args.tag = "object" /\ NamedKeys = Range(Declared)
\* the positional vector of the mapping's values, in declared order
PositionalVector == [i \in 1..Len(Declared) |-> ValueOf(call.args.entries, Declared[i])]

\* C1: a named-argument mapping whose keys are exactly the fragment's declared
\* parameters is resolved to its values in the declared order, whatever the
\* order of its entries: the scope built is the one the positional vector
\* passed directly builds.
C1_NamedArgsInDeclaredOrder ==
    (call.made /\ CoversDeclared) =>
        /\ scope.status = "built"
        /\ scope.args = PositionalVector
        /\ scope = BuildFunction(abi, call.func, ArrayArgs(PositionalVector))

\* a mapping written in another order than the declared one has been resolved
C1_Witness ==
    /\ call.made /\ CoversDeclared
    /\ Len(Declared) >= 2
    /\ call.args.entries[1][1] # Declared[1]
    /\ scope.status = "built"

\* C5: a named-argument mapping is resolved to one value per declared
\* parameter, or the call fails: with UnknownParameter when a key names no
\* declared parameter, with MissingParameter when a declared parameter has no
\* key (an undefined mapping for a fragment with parameters included); then no
\* scope is built.
C5_NamedArgsValidated ==
    NamedCall =>
        IF NamedKeys = Range(Declared)
        THEN scope.status = "built" /\ Len(scope.args) = Len(Declared)
        ELSE /\ scope.status = "failed"
             /\ scope.err = IF NamedKeys \ Range(Declared) # {}
                            THEN "UnknownParameter" ELSE "MissingParameter"

\* C6: a positional sequence whose length is not the number of declared
\* parameters fails with ArityMismatch; one of the right length is passed
\* through unchanged.
C6_PositionalArityValidated ==
    (call.made /\ call.args.tag = "array") =>
        IF Len(call.args.items) = Len(Declared)
        THEN scope.status = "built" /\ scope.args = call.args.items
        ELSE scope.status = "failed" /\ scope.err = "ArityMismatch"

(***************************************************************************)
(*              Properties of setConfigurableConstants                     *)
(***************************************************************************)
Called == outcome.status # "idle"
Entries == 1..Len(configurableConstants)
KeyAt(i) == configurableConstants[i][1]
IsDeclared(i) == abiInterface.present /\ KeyAt(i) \in DOMAIN abiInterface.configurables
SlotAt(i) == abiInterface.configurables[KeyAt(i)]
EncodedAt(i) == CoderEncode(SlotAt(i).fragmentType, configurableConstants[i][2])
\* the positions [o, o+w) of the slot entry i names, counted from 1
SlotRange(i) == (SlotAt(i).offset + 1)..(SlotAt(i).offset + Len(EncodedAt(i).bytes))
SlotHolds(i) ==
    \A k \in SlotRange(i) : bytes[k] = EncodedAt(i).bytes[k - SlotAt(i).offset]
OutsideUnchanged ==
    \A k \in 1..Len(bytesBefore) :
        (\A i \in Entries : k \notin SlotRange(i)) => bytes[k] = bytesBefore[k]
PairwiseDisjoint ==
    \A i, j \in Entries : i # j => SlotRange(i) \cap SlotRange(j) = {}

\* C2: a call whose values mapping holds a name that is not a declared
\* configurable fails and leaves every byte of the working buffer as it was,
\* wherever the unknown name stands among the entries.
C2_UnknownNameLeavesBytecode ==
    (Called /\ \E i \in Entries : ~IsDeclared(i)) =>
        /\ outcome.status = "thrown"
        /\ bytes = bytesBefore

\* C3, as stated: after a successful call every named slot's bytes [o, o+w)
\* are the encoding of its value, the length is the input's, and every byte
\* outside the named slots' ranges is unchanged.
C3_EverySlotHoldsItsEncoding ==
    outcome.status = "returned" =>
        /\ Len(bytes) = Len(bytesBefore)
        /\ \A i \in Entries : SlotHolds(i)
        /\ OutsideUnchanged

\* C3, amended: after a successful call every named slot whose range no
\* later entry's slot overlaps holds the encoding of its value, the length is
\* the input's, and every byte outside the named slots' ranges is unchanged.
C3_SlotHoldsItsEncodingUnlessOverwritten ==
    outcome.status = "returned" =>
        /\ Len(bytes) = Len(bytesBefore)
        /\ \A i \in Entries :
              (\A j \in Entries : j > i => SlotRange(i) \cap SlotRange(j) = {})
                  => SlotHolds(i)
        /\ OutsideUnchanged

\* two slots lying apart have been patched and a byte outside them is left
C3_Witness ==
    /\ outcome.status = "returned"
    /\ Len(configurableConstants) >= 2
    /\ PairwiseDisjoint
    /\ \A i \in Entries : SlotHolds(i)
    /\ \E k \in 1..Len(bytes) : \A i \in Entries : k \notin SlotRange(i)

\* entry i names a declared slot whose encoded value would end past the buffer
WritesPastEnd(i) ==
    /\ IsDeclared(i)
    /\ EncodedAt(i).ok
    /\ SlotAt(i).offset + Len(EncodedAt(i).bytes) > Len(bytesBefore)
\* entry j is written: declared, encodable, within the buffer
IsWritten(j) ==
    /\ IsDeclared(j)
    /\ EncodedAt(j).ok
    /\ SlotAt(j).offset + Len(EncodedAt(j).bytes) <= Len(bytesBefore)

\* C7: the method never writes past the end of the bytecode: the buffer keeps
\* its length; a call naming a declared slot whose offset plus encoded length
\* exceeds the length fails and returns no bytecode; and when the entries
\* before that slot's were written, the failure is the range error of the
\* write (the OffsetOutOfRange case).
C7_NoWritePastEnd ==
    Called =>
        /\ Len(bytes) = Len(bytesBefore)
        /\ (\E i \in Entries : WritesPastEnd(i)) => outcome.status = "thrown"
        /\ \A i \in Entries :
              (WritesPastEnd(i) /\ \A j \in 1..(i - 1) : IsWritten(j))
                  => outcome.status = "thrown" /\ outcome.err = "RangeError"

\* a call has reached a slot that ends past the buffer, after writing another
C7_Witness ==
    /\ outcome.status = "thrown" /\ outcome.err = "RangeError"
    /\ \E i \in Entries : i > 1 /\ WritesPastEnd(i) /\ \A j \in 1..(i - 1) : IsWritten(j)

\* C8: when the slots a successful call names lie pairwise apart, applying
\* the entries in any other order to the same bytecode gives the same bytecode.
C8_OrderOfEntriesIrrelevant ==
    (outcome.status = "returned" /\ PairwiseDisjoint) =>
        \A p \in EntryOrders(configurableConstants) :
            LET r == SetConfigurableConstants(bytesBefore, p, abiInterface)
            IN  r.status = "returned" /\ r.buf = bytes

\* several slots lying apart have been patched
C8_Witness ==
    /\ outcome.status = "returned"
    /\ Len(configurableConstants) >= 2
    /\ PairwiseDisjoint
    /\ bytes # bytesBefore

(***************************************************************************)
(*                   Properties of a Predicate object                      *)
(***************************************************************************)
\* C4: whenever the predicate exists, after construction and after any
\* setData, populate, send or simulate, its address is the root of its bytes,
\* the bytecode the configurable constants were patched into, on the chain id
\* it was constructed for.
C4_AddressIsRootOfFinalBytes ==
    pred.constructed =>
        pred.address = GetContractRoot(pred.bytes, ctorArgs.chainId)

\* a predicate whose constants changed the bytecode has since been given data
\* and has populated a request
C4_Witness ==
    /\ pred.constructed
    /\ pred.bytes # ctorArgs.bytes
    /\ setDataLog.status = "returned"
    /\ lastRequest.made

\* input i of the request handed in is a coin the predicate owns
OwnedCoin(i) ==
    /\ lastRequest.inputs[i].type = "Coin"
    /\ lastRequest.inputs[i].owner.hex = pred.address

\* C9: the populated request has the inputs of the request handed in, in
\* their order; a Coin input owned by the predicate's address carries the
\* predicate's bytes and the data of the most recent setData (empty when there
\* was none); every other input is as it was.
C9_OnlyOwnedCoinsPopulated ==
    lastRequest.made =>
        /\ Len(lastRequest.request) = Len(lastRequest.inputs)
        /\ \A i \in 1..Len(lastRequest.inputs) :
              lastRequest.request[i] =
                  IF OwnedCoin(i)
                  THEN [lastRequest.inputs[i] EXCEPT
                            !.predicate = pred.bytes,
                            !.predicateData = lastRequest.data]
                  ELSE lastRequest.inputs[i]

\* a request holding an owned coin and, after it, a coin of another owner has
\* been populated with data that a setData call encoded
C9_Witness ==
    /\ lastRequest.made
    /\ lastRequest.data # <<>>
    /\ \E i, j \in 1..Len(lastRequest.inputs) :
          /\ i < j
          /\ OwnedCoin(i)
          /\ lastRequest.inputs[j].type = "Coin" /\ ~OwnedCoin(j)

MainNames == [i \in 1..Len(pred.jsonAbi) |-> pred.jsonAbi[i].name]
\* the most recent setData call passed one object naming exactly main's inputs
NamedSetData ==
    /\ setDataLog.status # "none"
    /\ Len(setDataLog.args) = 1
    /\ setDataLog.args[1].tag = "object"
    /\ Keys(setDataLog.args[1].entries) = Range(MainNames)

\* C10: a predicate constructed with isBuiltByFuelFactory = true runs the
\* named closure of setData: given an object naming main's inputs, the call
\* returns and predicateData is the encoding of the object's values in the
\* declared order of main's inputs.
C10_SetDataBranchFollowsConstructor ==
    (pred.constructed /\ ctorArgs.isBuiltByFuelFactory /\ NamedSetData) =>
        /\ pred.setData = "named"
        /\ setDataLog.status = "returned"
        /\ pred.predicateData =
              AbiCoderEncode(pred.jsonAbi,
                  [i \in 1..Len(MainNames) |->
                      Num(ValueOf(setDataLog.args[1].entries, MainNames[i]))]).bytes

====
